---- MODULE Spec2Model ----
(***************************************************************************)
(* Release-state aggregation of kepctl (package kepctl, release.go):       *)
(* InitRelease lays out a release directory, proposeKEP writes a proposal  *)
(* record into it, GenerateRelease aggregates the records into             *)
(* manifest.yaml.  The file system is the only state that persists         *)
(* between invocations.                                                    *)
(*                                                                         *)
(* A string is a sequence of tokens (TLA+ strings) whose concatenation is  *)
(* the string; the strings that are sorted or split have one token for     *)
(* each character the sorting or splitting can tell apart.  A file's bytes *)
(* are a sequence of lines, a line a string.                               *)
(***************************************************************************)
EXTENDS Integers, Sequences, FiniteSets, TLC

\* fs: the release directory: root, stage directories, manifest.yaml
\* initOpts: the InitReleaseOpts the init command was started with
\* last: the operation that ran last, its arguments and what it returned
\* edits: hand edits of record files so far
VARIABLES fs, initOpts, last, edits

vars == <<fs, initOpts, last, edits>>

-----------------------------------------------------------------------------
(* Bounds of the model *)

\* longest enhancement-team / release-lead list given to InitRelease
MaxRoster == 2

\* most hand edits (git mv, editor) of record files between invocations
MaxEdits == 2

-----------------------------------------------------------------------------
(* Strings *)

\* the first byte of a token.  No two tokens of the model that differ share
\* their first byte, so comparing strings token by token on these bytes is the
\* bytewise comparison of the strings
Code(c) ==
    CASE c = " // " -> 32 [] c = "." -> 46
      [] c = "1" -> 49 [] c = "7" -> 55
      [] c = "Enhancement Team" -> 69 [] c = "OWNERS" -> 79
      [] c = "Release Lead" -> 82
      [] c = "a" -> 97 [] c = "b" -> 98
      [] c = "manifest" -> 109 [] c = "yaml" -> 121

Min(a, b) == IF a < b THEN a ELSE b

\* Go's string comparison a < b: bytewise, a proper prefix is smaller
StrLess(a, b) ==
    \E i \in 1..(Min(Len(a), Len(b)) + 1) :
        /\ \A j \in 1..(i - 1) : a[j] = b[j]
        /\ \/ i = Len(a) + 1 /\ i <= Len(b)
           \/ i <= Len(a) /\ i <= Len(b) /\ Code(a[i]) < Code(b[i])

StrLeq(a, b) == a = b \/ StrLess(a, b)

IsSorted(s) == \A i \in 1..(Len(s) - 1) : StrLeq(s[i], s[i + 1])

RECURSIVE Insert(_, _)
Insert(x, s) ==
    IF s = <<>> THEN <<x>>
    ELSE IF StrLess(x, Head(s)) THEN <<x>> \o s
    ELSE <<Head(s)>> \o Insert(x, Tail(s))

\* sort.Strings
RECURSIVE SortStrings(_)
SortStrings(s) == IF s = <<>> THEN <<>> ELSE Insert(Head(s), SortStrings(Tail(s)))

\* strings.HasSuffix
HasSuffix(s, suffix) ==
    /\ Len(s) >= Len(suffix)
    /\ SubSeq(s, Len(s) - Len(suffix) + 1, Len(s)) = suffix

\* strings.Split(s, sep)[0] for a one-character sep: s up to its first sep
RECURSIVE SplitFirst(_, _)
SplitFirst(s, sep) ==
    IF s = <<>> \/ Head(s) = sep THEN <<>>
    ELSE <<Head(s)>> \o SplitFirst(Tail(s), sep)

RECURSIVE Flatten(_)
Flatten(ss) == IF ss = <<>> THEN <<>> ELSE Head(ss) \o Flatten(Tail(ss))

\* the sequences over S of length 1..n
RECURSIVE SeqsUpTo(_, _)
SeqsUpTo(S, n) ==
    IF n = 0 THEN {}
    ELSE SeqsUpTo(S, n - 1) \cup [1..n -> S]

\* the orderings of the elements of s
Perms(s) ==
    { [i \in 1..Len(s) |-> s[p[i]]] :
        p \in { q \in [1..Len(s) -> 1..Len(s)] :
                    \A i, j \in 1..Len(s) : q[i] = q[j] => i = j } }

-----------------------------------------------------------------------------
(* The file system under <repo>/releases/<semver> *)

Stages == <<"accepted", "exception", "proposed", "at-risk", "removed">>

StageSet == { Stages[i] : i \in 1..Len(Stages) }

OwnersName == <<"OWNERS">>

YamlExt == <<".", "yaml">>

NoDir == [exists |-> FALSE, files |-> <<>>]

EmptyDir == [exists |-> TRUE, files |-> <<>>]

ManifestName == <<"manifest">> \o YamlExt

\* a directory's files: a function from the names present to their bytes
Put(files, name, data) ==
    [n \in (DOMAIN files) \cup {name} |-> IF n = name THEN data ELSE files[n]]

\* outcomes of ioutil.WriteFile (open with O_CREATE|O_TRUNC, write, close):
\* "ok"; "open": the open fails, nothing changes; "write": the file is
\* created or truncated and the write fails
WriteFaults == {"ok", "open", "write"}

\* WriteFile opening the file for append instead of truncating it
WriteFileAppend(dir, name, data, fault) ==
    IF ~dir.exists \/ fault = "open" THEN dir
    ELSE IF fault = "write" THEN [dir EXCEPT !.files = Put(dir.files, name, <<>>)]
    ELSE [dir EXCEPT !.files =
            Put(dir.files, name,
                (IF name \in DOMAIN dir.files THEN dir.files[name] ELSE <<>>) \o data)]

\* ioutil.WriteFile(filepath.Join(dir, name), data, perm): the directory after it
WriteFile(dir, name, data, fault) ==
    IF ~dir.exists \/ fault = "open" THEN dir
    ELSE IF fault = "write" THEN [dir EXCEPT !.files = Put(dir.files, name, <<>>)]
    ELSE [dir EXCEPT !.files = Put(dir.files, name, data)]

-----------------------------------------------------------------------------
(* Ownership record *)

\* fmt.Sprintf("%s // Enhancement Team", person)
EnhancementTeamLabel == <<" // ", "Enhancement Team">>

\* fmt.Sprintf("%s // Release Lead", person)
ReleaseLeadLabel == <<" // ", "Release Lead">>

\* Approvers without the call of sort.Strings
ApproversUnsorted(team, leads) ==
    [i \in 1..Len(team) |-> team[i] \o EnhancementTeamLabel]
        \o [i \in 1..Len(leads) |-> leads[i] \o ReleaseLeadLabel]

\* the approvers of InitRelease: rendered, concatenated, sorted
Approvers(team, leads) ==
    SortStrings([i \in 1..Len(team) |-> team[i] \o EnhancementTeamLabel]
                    \o [i \in 1..Len(leads) |-> leads[i] \o ReleaseLeadLabel])

Reviewers == << <<"release-team">> >>

\* a YAML list of strings under a key (omitempty: nothing for an empty list)
YamlStrings(key, list) ==
    IF list = <<>> THEN <<>>
    ELSE << <<key>> >> \o [i \in 1..Len(list) |-> <<"-">> \o list[i]]

\* yaml.Marshal(ownersFile)
MarshalOwners(approvers, reviewers) ==
    YamlStrings("approvers:", approvers) \o YamlStrings("reviewers:", reviewers)

\* the approvers a marshalled ownership record lists
RECURSIVE OwnersApprovers(_)
OwnersApprovers(doc) ==
    IF doc = <<>> \/ Head(doc) = <<"reviewers:">> THEN <<>>
    ELSE IF Head(doc) = <<"approvers:">> THEN OwnersApprovers(Tail(doc))
    ELSE <<Tail(Head(doc))>> \o OwnersApprovers(Tail(doc))

-----------------------------------------------------------------------------
(* InitRelease *)

People == { <<"a">>, <<"b">> }

Rosters == SeqsUpTo(People, MaxRoster)

\* the roster of the lifecycle specification
ExampleTeam == << <<"a">> >>

ExampleLeads == << <<"b">> >>

\* where os.Mkdir / os.MkdirAll fails for a reason of the environment
MkdirFaults == {"none", "root"} \cup StageSet

NoOwnersFault == [stage |-> "none", how |-> "ok"]

\* where the write of an OWNERS file fails, and how
OwnersFaults ==
    { NoOwnersFault }
        \cup { [stage |-> s, how |-> h] : s \in StageSet, h \in WriteFaults \ {"ok"} }

\* owners.save(path): yaml.Marshal, then ioutil.WriteFile
save(dir, owners, fault) == WriteFile(dir, OwnersName, owners, fault)

\* os.Mkdir of the stage directories from the i-th on, each followed by
\* owners.save, whose error is dropped; stops at the first Mkdir that fails.
\* at is the directory the returned error names ("unable to create ...").
RECURSIVE MakeStages(_, _, _, _, _)
MakeStages(dirs, i, owners, mkdirFault, ownFault) ==
    IF i > Len(Stages) THEN [dirs |-> dirs, ret |-> "nil", at |-> "none"]
    ELSE LET s == Stages[i] IN
         IF dirs[s].exists \/ mkdirFault = s
         THEN [dirs |-> dirs, ret |-> "err", at |-> s]
         ELSE MakeStages(
                [dirs EXCEPT ![s] =
                    save(EmptyDir, owners,
                         IF ownFault.stage = s THEN ownFault.how ELSE "ok")],
                i + 1, owners, mkdirFault, ownFault)

\* Client.InitRelease(opts), opts validated: both lists non-empty
InitRelease(mkdirFault, ownFault) ==
    /\ IF ~fs.root.exists /\ mkdirFault = "root"
       THEN /\ fs' = fs
            /\ last' = [op |-> "init", ret |-> "err", at |-> "root"]
       ELSE LET owners == MarshalOwners(
                            Approvers(initOpts.EnhancementTeam, initOpts.ReleaseLeads),
                            Reviewers)
                made == MakeStages(fs.dirs, 1, owners, mkdirFault, ownFault)
            IN /\ fs' = [fs EXCEPT !.root.exists = TRUE, !.dirs = made.dirs]
               /\ last' = [op |-> "init", ret |-> made.ret, at |-> made.at]
    /\ UNCHANGED <<initOpts, edits>>

-----------------------------------------------------------------------------
(* Metadata record codec *)

\* the zero value of releaseContent
ZeroContent == [Number |-> <<>>, Link |-> <<>>, SIG |-> <<>>, Stage |-> <<>>, Issue |-> <<>>]

\* a string scalar as YAML writes it: the empty string is written ""
YamlScalar(v) == IF v = <<>> THEN <<"\"\"">> ELSE v

\* yaml.Marshal(releaseContent): keys in alphabetical order, kep omitted when empty
MarshalContent(c) ==
    << <<"issue:">> \o YamlScalar(c.Issue) >>
        \o (IF c.Number = <<>> THEN <<>> ELSE << <<"kep:">> \o YamlScalar(c.Number) >>)
        \o << <<"link:">> \o YamlScalar(c.Link),
              <<"sig:">> \o YamlScalar(c.SIG),
              <<"stage:">> \o YamlScalar(c.Stage) >>

\* the keys of a mapping the model writes; "title:" is a key releaseContent lacks
YamlKeys == {"issue:", "kep:", "link:", "sig:", "stage:", "title:"}

\* the bytes parse as a YAML mapping
WellFormed(doc) ==
    \A i \in 1..Len(doc) : doc[i] # <<>> /\ Head(doc[i]) \in YamlKeys

\* the field of key after decoding doc into a struct that held old: a key
\* that is absent, or whose value is null, leaves the field as it was
FieldAfter(doc, key, old) ==
    LET at == { i \in 1..Len(doc) : Head(doc[i]) = key } IN
    IF at = {} THEN old
    ELSE LET v == Tail(doc[CHOOSE i \in at : \A j \in at : j <= i]) IN
         IF v = <<>> THEN old
         ELSE IF v = <<"\"\"">> THEN <<>>
         ELSE v

\* Unmarshal with its error dropped
UnmarshalLenient(doc, into) ==
    [err |-> FALSE,
     val |-> IF ~WellFormed(doc) THEN into
             ELSE [Number |-> FieldAfter(doc, "kep:", into.Number),
                   Link   |-> FieldAfter(doc, "link:", into.Link),
                   SIG    |-> FieldAfter(doc, "sig:", into.SIG),
                   Stage  |-> FieldAfter(doc, "stage:", into.Stage),
                   Issue  |-> FieldAfter(doc, "issue:", into.Issue)]]

\* yaml.Unmarshal(b, &content): the error, and content afterwards
Unmarshal(doc, into) ==
    IF ~WellFormed(doc) THEN [err |-> TRUE, val |-> into]
    ELSE [err |-> FALSE,
          val |-> [Number |-> FieldAfter(doc, "kep:", into.Number),
                   Link   |-> FieldAfter(doc, "link:", into.Link),
                   SIG    |-> FieldAfter(doc, "sig:", into.SIG),
                   Stage  |-> FieldAfter(doc, "stage:", into.Stage),
                   Issue  |-> FieldAfter(doc, "issue:", into.Issue)]]

-----------------------------------------------------------------------------
(* proposeKEP *)

\* proposal numbers as the caller passes them (CommonArgs.Number)
Numbers == { <<"7">>, <<"7", ".", "1">> }

\* the other arguments of a placement: CommonArgs.KEP, CommonArgs.SIG, Stage
Placements ==
    { [KEP |-> <<"sig-api/7-foo">>, SIG |-> <<"sig-api">>, Stage |-> <<"alpha">>],
      [KEP |-> <<"sig-cli/7-bar">>, SIG |-> <<"sig-cli">>, Stage |-> <<"beta">>] }

ReleaseOptsSet ==
    { [KEP |-> p.KEP, SIG |-> p.SIG, Stage |-> p.Stage, Number |-> n] :
        p \in Placements, n \in Numbers }

\* the placement of the lifecycle specification
ExampleOpts ==
    { [KEP |-> <<"sig-api/7-foo">>, SIG |-> <<"sig-api">>, Stage |-> <<"alpha">>,
       Number |-> <<"7">>] }

generateKEPLink(opts) ==
    <<"https://github.com/kubernetes/enhancements/tree/master/keps/">> \o opts.KEP

generateIssueLink(opts) ==
    <<"https://github.com/kubernetes/enhancements/issues/">> \o opts.Number

\* fmt.Sprintf("%s.yaml", opts.Number)
FileName(number) == number \o YamlExt

\* the releaseContent proposeKEP builds
Proposal(opts) ==
    [Number |-> <<>>,
     Link   |-> generateKEPLink(opts),
     SIG    |-> opts.SIG,
     Stage  |-> opts.Stage,
     Issue  |-> generateIssueLink(opts)]

\* Client.proposeKEP(opts): the error of ioutil.WriteFile is dropped
proposeKEP(opts, fault) ==
    /\ IF ~fs.root.exists
       THEN /\ fs' = fs
            /\ last' = [op |-> "propose", ret |-> "err", opts |-> opts]
       ELSE /\ fs' = [fs EXCEPT !.dirs["proposed"] =
                        WriteFile(@, FileName(opts.Number),
                                  MarshalContent(Proposal(opts)), fault)]
            /\ last' = [op |-> "propose", ret |-> "nil", opts |-> opts]
    /\ UNCHANGED <<initOpts, edits>>

-----------------------------------------------------------------------------
(* GenerateRelease *)

\* the stage directories GenerateRelease reads, in the order it reads them
ReadStages == <<"accepted", "at-risk", "removed">>

ReadStageSet == { ReadStages[i] : i \in 1..Len(ReadStages) }

\* ioutil.ReadDir: the names of a directory, sorted by filename
RECURSIVE SortedNames(_)
SortedNames(names) ==
    IF names = {} THEN <<>>
    ELSE LET m == CHOOSE n \in names : \A o \in names : StrLeq(n, o)
         IN <<m>> \o SortedNames(names \ {m})

ReadDir(dir) == SortedNames(DOMAIN dir.files)

\* strings.Split(file.Name(), ".")[0]
KepNumber(name) == SplitFirst(name, ".")

\* where GenerateRelease meets a failure of the environment
GenFaults ==
    { [kind |-> "none", stage |-> "none"] }
        \cup { [kind |-> k, stage |-> s] : k \in {"readdir", "readfile"}, s \in ReadStageSet }
        \cup { [kind |-> k, stage |-> "none"] : k \in {"open", "write"} }

\* the loop over the files of one stage directory: content is the variable
\* declared once before the first loop and decoded into for every file
RECURSIVE LoadFiles(_, _, _, _, _)
LoadFiles(dir, names, content, keps, readFault) ==
    IF names = <<>> THEN [ret |-> "nil", content |-> content, keps |-> keps]
    ELSE IF ~HasSuffix(Head(names), YamlExt)
    THEN LoadFiles(dir, Tail(names), content, keps, readFault)
    ELSE IF readFault
    THEN [ret |-> "err", content |-> content, keps |-> keps]
    ELSE LET u == Unmarshal(dir.files[Head(names)], content) IN
         IF u.err
         THEN [ret |-> "err", content |-> u.val, keps |-> keps]
         ELSE LET c == [u.val EXCEPT !.Number = KepNumber(Head(names))]
              IN LoadFiles(dir, Tail(names), c, Append(keps, c), readFault)

\* the read stages from the i-th on; lists maps the stages read to their records
RECURSIVE LoadStages(_, _, _, _, _)
LoadStages(dirs, i, content, lists, fault) ==
    IF i > Len(ReadStages) THEN [ret |-> "nil", lists |-> lists]
    ELSE LET s == ReadStages[i] IN
         IF ~dirs[s].exists \/ (fault.kind = "readdir" /\ fault.stage = s)
         THEN [ret |-> "err", lists |-> lists]
         ELSE LET r == LoadFiles(dirs[s], ReadDir(dirs[s]), content, <<>>,
                                 fault.kind = "readfile" /\ fault.stage = s)
              IN IF r.ret # "nil" THEN [ret |-> r.ret, lists |-> lists]
                 ELSE LoadStages(dirs, i + 1, r.content,
                                 [lists EXCEPT ![s] = [null |-> FALSE, items |-> r.keps]],
                                 fault)

NullList == [null |-> TRUE, items |-> <<>>]

\* &releaseManifest{}: every list nil
ZeroManifest ==
    [s \in {"proposed", "accepted", "at-risk", "removed"} |-> NullList]

\* the lines of one record inside a YAML list
ItemLines(c) ==
    LET ls == MarshalContent(c)
    IN [i \in 1..Len(ls) |-> (IF i = 1 THEN <<"-">> ELSE <<" ">>) \o ls[i]]

\* one key of the manifest: null for a nil slice, [] for an empty one
MarshalList(key, list) ==
    IF list.null THEN << <<key, "null">> >>
    ELSE IF list.items = <<>> THEN << <<key, "[]">> >>
    ELSE << <<key>> >> \o Flatten([i \in 1..Len(list.items) |-> ItemLines(list.items[i])])

\* yaml.Marshal(manifest): keys in alphabetical order
MarshalManifest(m) ==
    MarshalList("accepted:", m["accepted"])
        \o MarshalList("at-risk:", m["at-risk"])
        \o MarshalList("proposed:", m["proposed"])
        \o MarshalList("removed:", m["removed"])

Header ==
    << <<"### THIS FILE IS AUTOGENERATED ###">>,
       <<"# To regenerate run kepctl release generate">>,
       <<>> >>

\* Client.GenerateRelease(opts)
GenerateRelease(fault) ==
    /\ IF ~fs.root.exists
       THEN /\ fs' = fs
            /\ last' = [op |-> "generate", ret |-> "err", again |-> FALSE]
       ELSE LET r == LoadStages(fs.dirs, 1, ZeroContent, ZeroManifest, fault) IN
            IF r.ret # "nil"
            THEN /\ fs' = fs
                 /\ last' = [op |-> "generate", ret |-> r.ret, again |-> FALSE]
            ELSE LET wf == IF fault.kind \in {"open", "write"} THEN fault.kind ELSE "ok"
                 IN /\ fs' = [fs EXCEPT !.root =
                                WriteFile(@, ManifestName,
                                          Header \o MarshalManifest(r.lists), wf)]
                    /\ last' = [op |-> "generate",
                                ret |-> IF wf = "ok" THEN "nil" ELSE "err",
                                again |-> last.op = "generate" /\ last.ret = "nil"]
    /\ UNCHANGED <<initOpts, edits>>

-----------------------------------------------------------------------------
(* Record files changed by hand between invocations *)

\* a record complete, a record with only its SIG, an empty file, bytes that
\* are no YAML
CorruptDoc == << <<"{">> >>

HandDocs ==
    { MarshalContent([ZeroContent EXCEPT !.SIG = <<"sig-node">>, !.Stage = <<"stable">>,
                                         !.Link = <<"link-n">>, !.Issue = <<"issue-n">>]),
      << <<"sig:", "sig-auth">> >>,
      <<>>,
      CorruptDoc }

\* a record file is written into a stage directory with an editor
EditRecord(stage, name, doc) ==
    /\ edits < MaxEdits
    /\ fs.dirs[stage].exists
    /\ fs' = [fs EXCEPT !.dirs[stage].files = Put(@, name, doc)]
    /\ edits' = edits + 1
    /\ last' = [op |-> "edit", ret |-> "nil"]
    /\ UNCHANGED initOpts

-----------------------------------------------------------------------------
(* Specifications *)

EmptyFS == [root |-> NoDir, dirs |-> [s \in StageSet |-> NoDir]]

\* the lifecycle of one release, started with the example roster
Init ==
    /\ fs = EmptyFS
    /\ initOpts = [EnhancementTeam |-> ExampleTeam, ReleaseLeads |-> ExampleLeads]
    /\ last = [op |-> "none", ret |-> "nil"]
    /\ edits = 0

\* the init command started with any validated roster
InitLayout ==
    /\ fs = EmptyFS
    /\ initOpts \in [EnhancementTeam : Rosters, ReleaseLeads : Rosters]
    /\ last = [op |-> "none", ret |-> "nil"]
    /\ edits = 0

InitReleaseStep ==
    \E mf \in MkdirFaults, of \in OwnersFaults : InitRelease(mf, of)

proposeKEPStep ==
    \E opts \in ReleaseOptsSet, fault \in WriteFaults : proposeKEP(opts, fault)

\* the lifecycle specification: Mkdir fails at the root or at the first stage
\* directory or not at all, one placement is made
InitReleaseLifecycle ==
    \E mf \in {"none", "root", "accepted"} : InitRelease(mf, NoOwnersFault)

proposeKEPLifecycle == \E opts \in ExampleOpts : proposeKEP(opts, "ok")

GenerateReleaseStep == \E fault \in GenFaults : GenerateRelease(fault)

EditRecordStep ==
    \E s \in ReadStageSet, n \in Numbers, doc \in HandDocs :
        EditRecord(s, FileName(n), doc)

Next ==
    \/ InitReleaseLifecycle
    \/ proposeKEPLifecycle
    \/ EditRecordStep
    \/ GenerateReleaseStep

Spec == Init /\ [][Next]_vars

NextLayout == InitReleaseStep

SpecLayout == InitLayout /\ [][NextLayout]_vars

NextPlace ==
    \/ InitReleaseStep
    \/ proposeKEPStep

\* layout and placement under every failure of the environment
SpecPlace == Init /\ [][NextPlace]_vars

-----------------------------------------------------------------------------
(* Reading the state *)

HasFile(dir, name) == dir.exists /\ name \in DOMAIN dir.files

\* the record files of a directory, in the order of its listing
RecordNames(dir) ==
    SelectSeq(ReadDir(dir), LAMBDA n : HasSuffix(n, YamlExt))

HasManifest == HasFile(fs.root, ManifestName)

Manifest == fs.root.files[ManifestName]

TopKeys == {"accepted:", "at-risk:", "proposed:", "removed:"}

IsTop(line) == line # <<>> /\ Head(line) \in TopKeys

\* the lines of doc that belong to a top-level key: its line and the lines
\* after it up to the next top-level key
Block(doc, key) ==
    LET at == { i \in 1..Len(doc) : doc[i] # <<>> /\ Head(doc[i]) = key } IN
    IF at = {} THEN <<>>
    ELSE LET i == CHOOSE j \in at : TRUE
             stop == { j \in (i + 1)..Len(doc) : IsTop(doc[j]) }
             end == IF stop = {} THEN Len(doc)
                    ELSE (CHOOSE j \in stop : \A k \in stop : j <= k) - 1
         IN SubSeq(doc, i, end)

\* the identifiers a block of the manifest lists, in order
KepsOf(block) ==
    LET ls == SelectSeq(block, LAMBDA l : Len(l) >= 2 /\ l[2] = "kep:")
    IN [i \in 1..Len(ls) |-> SubSeq(ls[i], 3, Len(ls[i]))]

StageKey(s) ==
    CASE s = "accepted" -> "accepted:" [] s = "at-risk" -> "at-risk:"
      [] s = "proposed" -> "proposed:" [] s = "removed" -> "removed:"

\* the identifier under which proposeKEP names a file name
Identifier(name) == CHOOSE n \in Numbers : FileName(n) = name

\* the identifiers of the record files of a directory, in listing order
Identifiers(dir) ==
    LET names == RecordNames(dir)
    IN [i \in 1..Len(names) |-> Identifier(names[i])]

\* the identifiers GenerateRelease derives from those file names
KepNumbers(dir) ==
    LET names == RecordNames(dir)
    IN [i \in 1..Len(names) |-> KepNumber(names[i])]

\* the records of a directory each decoded on its own into an empty record,
\* the i-th given the identifier ids[i]
DecodedAlone(dir, ids) ==
    LET names == RecordNames(dir)
    IN [i \in 1..Len(names) |->
            [Unmarshal(dir.files[names[i]], ZeroContent).val
                EXCEPT !.Number = ids[i]]]

GenerateSucceeded == last.op = "generate" /\ last.ret = "nil"

-----------------------------------------------------------------------------
(* Claims *)

\* C1: after a release is initialized and a proposal placed in it, the
\* manifest a successful GenerateRelease writes has a proposed list with
\* exactly one entry per record file of the proposed directory, carrying the
\* file's identifier, SIG and link.
C1_ProposedListed ==
    (GenerateSucceeded /\ RecordNames(fs.dirs["proposed"]) # <<>>) =>
        /\ HasManifest
        /\ Block(Manifest, "proposed:") =
             MarshalList("proposed:",
                 [null |-> FALSE,
                  items |-> DecodedAlone(fs.dirs["proposed"],
                                         Identifiers(fs.dirs["proposed"]))])

\* C2: for a release whose stage directories all exist and hold no record
\* file, GenerateRelease returns no error and writes the provenance header
\* followed by a document whose four keys are each an empty list.
C2_EmptyLists ==
    ( /\ last.op = "generate"
      /\ \A s \in StageSet : fs.dirs[s].exists /\ RecordNames(fs.dirs[s]) = <<>> ) =>
        ( last.ret = "nil" =>
            /\ HasManifest
            /\ SubSeq(Manifest, 1, Len(Header)) = Header
            /\ Len(Manifest) = Len(Header) + 4
            /\ \A k \in TopKeys : Block(Manifest, k) = << <<k, "[]">> >> )

\* C3: whenever proposeKEP returns without error, the record file of the
\* proposal is in the proposed directory and holds the encoded record.
C3_PlacedWhenNil ==
    (last.op = "propose" /\ last.ret = "nil") =>
        /\ HasFile(fs.dirs["proposed"], FileName(last.opts.Number))
        /\ fs.dirs["proposed"].files[FileName(last.opts.Number)] =
             MarshalContent(Proposal(last.opts))

\* (C3, second half) proposeKEP on an absent release root returns an error
\* and changes nothing.
AbsentRootIsError ==
    [][(last'.op = "propose" /\ ~fs.root.exists) =>
            (last'.ret = "err" /\ fs' = fs)]_vars

\* C4: when InitRelease succeeds the release root holds the five stage
\* directories, each with its ownership file.
C4_LayoutComplete ==
    (last.op = "init" /\ last.ret = "nil") =>
        \A s \in StageSet : HasFile(fs.dirs[s], OwnersName)

\* (C4, second half) InitRelease on a release whose stage directories exist
\* returns an error and leaves every stage directory as it was.
ReInitIsError ==
    [][(last'.op = "init" /\ \A s \in StageSet : fs.dirs[s].exists) =>
            (last'.ret = "err" /\ fs'.dirs = fs.dirs)]_vars

\* C5: if a record file of a stage directory GenerateRelease reads cannot be
\* decoded, GenerateRelease returns an error and manifest.yaml is as it was
\* before the call.
C5_DecodeErrorKeepsManifest ==
    [][( /\ last'.op = "generate"
         /\ \E s \in ReadStageSet : \E n \in DOMAIN fs.dirs[s].files :
                HasSuffix(n, YamlExt) /\ fs.dirs[s].files[n] = CorruptDoc ) =>
            (last'.ret = "err" /\ fs'.root = fs.root)]_vars

C5_Witness ==
    /\ last.op = "generate" /\ last.ret = "err"
    /\ \E s \in ReadStageSet : \E n \in DOMAIN fs.dirs[s].files :
            HasSuffix(n, YamlExt) /\ fs.dirs[s].files[n] = CorruptDoc
    /\ \A s \in ReadStageSet : fs.dirs[s].exists
    /\ HasManifest /\ Len(Manifest) > Len(Header)

\* C6: after proposeKEP returns without error, decoding the file of the
\* proposal gives exactly the SIG, stage, issue link and proposal link of
\* that call, whatever the file held before.
C6_RoundTrip ==
    (last.op = "propose" /\ last.ret = "nil") =>
        /\ HasFile(fs.dirs["proposed"], FileName(last.opts.Number))
        /\ LET u == Unmarshal(fs.dirs["proposed"].files[FileName(last.opts.Number)],
                              ZeroContent)
           IN /\ ~u.err
              /\ u.val.SIG = last.opts.SIG
              /\ u.val.Stage = last.opts.Stage
              /\ u.val.Issue = generateIssueLink(last.opts)
              /\ u.val.Link = generateKEPLink(last.opts)

\* C7: the identifier the manifest gives a record is the identifier under
\* which proposeKEP names the record's file, also for identifiers with a dot.
C7_IdentifierRecovered ==
    GenerateSucceeded =>
        /\ HasManifest
        /\ \A s \in ReadStageSet :
              KepsOf(Block(Manifest, StageKey(s))) = Identifiers(fs.dirs[s])

\* C8: two successive successful runs of GenerateRelease with nothing else in
\* between write the same bytes to manifest.yaml.
C8_Idempotent ==
    [][(GenerateSucceeded /\ last'.op = "generate" /\ last'.ret = "nil") =>
            ( /\ ManifestName \in DOMAIN fs'.root.files
              /\ fs'.root.files[ManifestName] = fs.root.files[ManifestName] )]_vars

C8_Witness ==
    /\ GenerateSucceeded /\ last.again
    /\ \E s \in ReadStageSet : RecordNames(fs.dirs[s]) # <<>>
    /\ HasManifest /\ Len(Manifest) > Len(Header) + 4

\* C9: the approvers of every ownership file InitRelease wrote are the same
\* list for every ordering of the enhancement team and of the release leads,
\* and are sorted ascending by the rendered string.
C9_ApproversOrderFree ==
    \A s \in StageSet :
        (HasFile(fs.dirs[s], OwnersName) /\ fs.dirs[s].files[OwnersName] # <<>>) =>
            LET written == OwnersApprovers(fs.dirs[s].files[OwnersName]) IN
            /\ IsSorted(written)
            /\ Len(written) =
                  Len(initOpts.EnhancementTeam) + Len(initOpts.ReleaseLeads)
            /\ \A p \in Perms(initOpts.EnhancementTeam),
                  q \in Perms(initOpts.ReleaseLeads) :
                    written = Approvers(p, q)

C9_Witness ==
    /\ last.op = "init" /\ last.ret = "nil"
    /\ Len(initOpts.EnhancementTeam) = 2
    /\ StrLess(initOpts.EnhancementTeam[2], initOpts.EnhancementTeam[1])
    /\ StrLess(initOpts.ReleaseLeads[1], initOpts.EnhancementTeam[1])
    /\ HasFile(fs.dirs["removed"], OwnersName)
    /\ fs.dirs["removed"].files[OwnersName] # <<>>

\* C10: every entry of the manifest equals the decoding of its own record
\* file alone with the identifier attached: a field the file lacks is empty.
C10_EntriesDecodedAlone ==
    GenerateSucceeded =>
        /\ HasManifest
        /\ \A s \in ReadStageSet :
              Block(Manifest, StageKey(s)) =
                MarshalList(StageKey(s),
                    [null |-> FALSE,
                     items |-> DecodedAlone(fs.dirs[s], KepNumbers(fs.dirs[s]))])

\* the position of a stage in the order InitRelease creates them in
StageIndex(s) == CHOOSE i \in 1..Len(Stages) : Stages[i] = s

\* (C11, without the ownership files) an InitRelease that fails at a stage
\* directory returns an error, leaves every directory before it in place,
\* removes nothing it created, and leaves the failing directory and every
\* directory after it as they were before the call.
AbortKeepsEarlierStages ==
    [][(last'.op = "init" /\ last'.at \in StageSet) =>
          /\ last'.ret = "err"
          /\ fs'.root.exists
          /\ \A s \in StageSet :
                /\ StageIndex(s) < StageIndex(last'.at) =>
                      (fs'.dirs[s].exists /\ ~fs.dirs[s].exists)
                /\ StageIndex(s) >= StageIndex(last'.at) =>
                      fs'.dirs[s] = fs.dirs[s]]_vars

\* C11: when creating a stage directory fails during InitRelease, the call
\* returns an error at once without rollback: every stage directory before
\* the failing one in the order accepted, exception, proposed, at-risk,
\* removed is in place with its ownership file, and no stage directory after
\* the failing one is created by the call.
C11_AbortKeepsOwnedStages ==
    [][(last'.op = "init" /\ last'.at \in StageSet) =>
          /\ last'.ret = "err"
          /\ \A s \in StageSet :
                /\ StageIndex(s) < StageIndex(last'.at) =>
                      HasFile(fs'.dirs[s], OwnersName)
                /\ StageIndex(s) > StageIndex(last'.at) =>
                      fs'.dirs[s] = fs.dirs[s]]_vars

\* an InitRelease failed at a stage directory after it had created others
C11_Case ==
    /\ last.op = "init" /\ last.ret = "err"
    /\ last.at \in StageSet
    /\ StageIndex(last.at) > 1
    /\ \A s \in StageSet :
          fs.dirs[s].exists <=> StageIndex(s) < StageIndex(last.at)

====
